---- MODULE Spec2Model ----
(***************************************************************************)
(* Condition sets of reconcile-kit/api (package conditions).               *)
(*                                                                         *)
(* A Type is a Go string, modelled as the sequence of its bytes so that    *)
(* the byte-wise order of Go's string "<" is computed, not assumed.        *)
(* A slice is a reference to a backing array; the arrays live in heap, so  *)
(* that writing through one reference is seen through every alias.         *)
(* time.Time is a natural number, 0 being the zero time.                   *)
(***************************************************************************)
EXTENDS Integers, Sequences, FiniteSets, TLC

\* ---------------------------------------------------------------- bounds
NumTypes == 2
MaxClock == 2
NumProcs == 2

\* ---------------------------------------------------------------- types
\* const Ready Type = "Ready"
Ready == <<82, 101, 97, 100, 121>>

\* The non-Ready Types the callers use: "A" and "Re" are byte-wise smaller
\* than "Ready" ("Re" is a prefix of it), "S" and "a" are larger.
TypePool == << <<65>>, <<83>>, <<82, 101>>, <<97>> >>

Types == {Ready} \cup {TypePool[i] : i \in 1..NumTypes}

True == "True"
False == "False"
Unknown == "Unknown"

\* the (reason, message) pairs the callers pass to MarkFalse and MarkUnknown
Causes == {<<"", "">>, <<"DBDown", "database unreachable">>, <<"DBDown", "">>}

Condition(t, s, reason, msg, ltt) ==
    [Type |-> t, Status |-> s, Reason |-> reason, Message |-> msg,
     LastTransitionTime |-> ltt]

Procs == 1..NumProcs
\* the thread of the reconciliation loop that owns the resource
MainThread == 1
\* one array for the accessor, one for a reference kept by the caller, and
\* one private copy per running call
ArrIds == 1..(NumProcs + 2)

VARIABLES
    heap,   \* backing arrays: array id -> sequence of Condition
    obj,    \* stub.conds: the array the accessor holds
    held,   \* the array a caller got from GetConditions and still references (0: none)
    snap,   \* ghost: the entries of held at the moment GetConditions returned it
    clock,  \* the wall clock read by time.Now()
    call,   \* ghost: the latest completed call, with the arguments set() received
    pc,     \* per thread: the position inside the running call
    frame,  \* per thread: the running call, its arguments and locals
    conds,  \* per thread: the local slice conds (an array id, 0: none)
    gets,   \* ghost, per thread: GetConditions calls made by the running call
    sets    \* ghost, per thread: SetConditions calls made by the running call

vars == <<heap, obj, held, snap, clock, call, pc, frame, conds, gets, sets>>
locals == <<pc, frame, conds, gets, sets>>

\* ---------------------------------------------------------------- helpers
\* Go's string "<": byte-wise lexicographic, a proper prefix is smaller
RECURSIVE StrLess(_, _)
StrLess(a, b) ==
    IF b = <<>> THEN FALSE
    ELSE IF a = <<>> THEN TRUE
    ELSE IF a[1] # b[1] THEN a[1] < b[1]
    ELSE StrLess(Tail(a), Tail(b))

\* a comparator with the Ready rule the wrong way round
lexicographicLess_readyLast(a, b) ==
    IF a.Type = Ready /\ b.Type # Ready THEN FALSE
    ELSE IF b.Type = Ready /\ a.Type # Ready THEN TRUE
    ELSE StrLess(a.Type, b.Type)

\* a comparator without the second branch
lexicographicLess_noSecondBranch(a, b) ==
    IF a.Type = Ready /\ b.Type # Ready THEN TRUE
    ELSE StrLess(a.Type, b.Type)

\* a comparator that forgets the Ready rule
lexicographicLess_plain(a, b) == StrLess(a.Type, b.Type)

lexicographicLess(a, b) ==
    IF a.Type = Ready /\ b.Type # Ready THEN TRUE
    ELSE IF b.Type = Ready /\ a.Type # Ready THEN FALSE
    ELSE StrLess(a.Type, b.Type)

\* one pass of insertion sort: move element x down into the sorted prefix s
RECURSIVE InsertSorted(_, _)
InsertSorted(s, x) ==
    IF s = <<>> THEN <<x>>
    ELSE IF lexicographicLess(x, s[Len(s)])
         THEN Append(InsertSorted(SubSeq(s, 1, Len(s) - 1), x), s[Len(s)])
         ELSE Append(s, x)

\* a set that never sorts
sortConditions_none(cs) == cs

\* sort.Slice on a slice of at most 12 elements is an insertion sort
RECURSIVE sortConditions(_)
sortConditions(cs) ==
    IF cs = <<>> THEN <<>>
    ELSE InsertSorted(sortConditions(SubSeq(cs, 1, Len(cs) - 1)), cs[Len(cs)])

\* a lookup that looks at the first entry only
get_first(cs, t) == IF cs # <<>> /\ cs[1].Type = t THEN 1 ELSE 0

\* get: the index of the first entry of Type t, 0 for nil
get(cs, t) ==
    IF \E i \in 1..Len(cs) : cs[i].Type = t
    THEN CHOOSE i \in 1..Len(cs) :
            /\ cs[i].Type = t
            /\ \A j \in 1..(i - 1) : cs[j].Type # t
    ELSE 0

\* a refresh on every update
refresh_always(cond, s, reason, msg) == TRUE

\* a refresh when Status or Reason changes
refresh_either(cond, s, reason, msg) == cond.Status # s \/ cond.Reason # reason

\* a refresh test on Status instead of Reason
refresh_status(cond, s, reason, msg) == cond.Status # s

\* the test of set that decides whether LastTransitionTime is refreshed
refresh(cond, s, reason, msg) == cond.Reason # reason

\* a create branch that leaves LastTransitionTime at the zero time
upsert_zero(cs, t, s, reason, msg, now) ==
    IF \E i \in 1..Len(cs) : cs[i].Type = t
    THEN [i \in 1..Len(cs) |->
            IF cs[i].Type = t
            THEN Condition(t, s, reason, msg,
                           IF cs[i].Reason # reason THEN now
                           ELSE cs[i].LastTransitionTime)
            ELSE cs[i]]
    ELSE Append(cs, Condition(t, s, reason, msg, 0))

\* an update that stamps every entry, not only the one that matches
upsert_stampAll(cs, t, s, reason, msg, now) ==
    IF \E i \in 1..Len(cs) : cs[i].Type = t
    THEN [i \in 1..Len(cs) |->
            IF cs[i].Type = t
            THEN Condition(t, s, reason, msg,
                           IF cs[i].Reason # reason THEN now
                           ELSE cs[i].LastTransitionTime)
            ELSE [cs[i] EXCEPT !.LastTransitionTime =
                    IF cs[i].Reason # reason THEN now ELSE @]]
    ELSE Append(cs, Condition(t, s, reason, msg, now))

\* a create branch that assigns the new entry instead of appending it
upsert_assign(cs, t, s, reason, msg, now) ==
    IF \E i \in 1..Len(cs) : cs[i].Type = t
    THEN [i \in 1..Len(cs) |->
            IF cs[i].Type = t
            THEN Condition(t, s, reason, msg,
                           IF cs[i].Reason # reason THEN now
                           ELSE cs[i].LastTransitionTime)
            ELSE cs[i]]
    ELSE <<Condition(t, s, reason, msg, now)>>

\* the create-or-update part of set, before the sort
upsert(cs, t, s, reason, msg, now) ==
    LET i == get(cs, t) IN
    IF i # 0
    THEN [cs EXCEPT ![i] =
            Condition(cs[i].Type, s, reason, msg,
                      IF refresh(cs[i], s, reason, msg) THEN now
                      ELSE cs[i].LastTransitionTime)]
    ELSE Append(cs, Condition(t, s, reason, msg, now))

set(cs, t, s, reason, msg, now) == sortConditions(upsert(cs, t, s, reason, msg, now))

\* a scan without the break: the last False entry wins
firstFalse_last(cs) ==
    LET F == {i \in 1..Len(cs) : cs[i].Type # Ready /\ cs[i].Status = False} IN
    IF F = {} THEN 0 ELSE CHOOSE i \in F : \A j \in F : i >= j

\* a scan that lets Unknown block readiness
firstFalse_notTrue(cs) ==
    LET F == {i \in 1..Len(cs) : cs[i].Type # Ready /\ cs[i].Status # True} IN
    IF F = {} THEN 0 ELSE CHOOSE i \in F : \A j \in F : i <= j

\* the scan of SyncReady: index of the first non-Ready entry that is False, 0 if none
firstFalse(cs) ==
    LET F == {i \in 1..Len(cs) : cs[i].Type # Ready /\ cs[i].Status = False} IN
    IF F = {} THEN 0 ELSE CHOOSE i \in F : \A j \in F : i <= j

NoCall ==
    [op |-> "none", t |-> <<>>, s |-> "", reason |-> "", msg |-> "", now |-> 0,
     ret |-> FALSE]

Args(op, t, s, reason, msg) ==
    [op |-> op, t |-> t, s |-> s, reason |-> reason, msg |-> msg, now |-> 0,
     ret |-> FALSE]

\* the arguments SyncReady passes to set
readyArgs(cs) ==
    LET i == firstFalse(cs) IN
    IF i # 0
    THEN Args("SyncReady", Ready, False, cs[i].Reason, cs[i].Message)
    ELSE Args("SyncReady", Ready, True, "", "")

\* an IsTrue that only excludes False
isTrue_notFalse(cs, t) ==
    \E i \in 1..Len(cs) : cs[i].Type = t /\ cs[i].Status # False

\* the result of IsTrue
isTrue(cs, t) ==
    LET c == get(cs, t) IN c # 0 /\ cs[c].Status = True

\* no copy: conds := obj.GetConditions()
copyTarget_alias(src, fresh) == src

\* append([]Condition(nil), src...): the copy lands in a fresh array
copyTarget(src, fresh) == fresh

\* an array no live reference points to
freshArray(live) == CHOOSE a \in ArrIds \ live : \A b \in ArrIds \ live : a <= b

\* Array ids carry no meaning of their own: when SetConditions hands the
\* accessor another array, the two arrays trade ids, so the accessor's array
\* keeps its id and every other reference follows its array.
swapId(a, x, y) == IF a = x THEN y ELSE IF a = y THEN x ELSE a
swapHeap(h, x, y) == [a \in ArrIds |-> h[swapId(a, x, y)]]

\* an array nothing references is garbage
collect(h, live) == [a \in ArrIds |-> IF a \in live THEN h[a] ELSE <<>>]

\* ---------------------------------------------------------------- initial state
\* obj := &stub{}: no conditions
Init ==
    /\ heap = [a \in ArrIds |-> <<>>]
    /\ obj = 1
    /\ held = 0
    /\ snap = <<>>
    /\ clock = 1
    /\ call = NoCall
    /\ pc = [p \in Procs |-> "idle"]
    /\ frame = [p \in Procs |-> NoCall]
    /\ conds = [p \in Procs |-> 0]
    /\ gets = [p \in Procs |-> 0]
    /\ sets = [p \in Procs |-> 0]

\* ---------------------------------------------------------------- whole calls
\* Serialized calls by a caller that keeps no reference to the slice it read.

\* read through the accessor, copy, set, write back
mark(a) ==
    LET src == obj
        new == copyTarget(src, freshArray({src}))
        copied == [heap EXCEPT ![new] = heap[src]]
        after == [copied EXCEPT ![new] = set(copied[new], a.t, a.s, a.reason, a.msg, clock)]
    IN  /\ heap' = collect(swapHeap(after, src, new), {src})
        /\ call' = [a EXCEPT !.now = clock]
        /\ UNCHANGED <<obj, held, snap, clock, locals>>

MarkTrue ==
    \E t \in Types : mark(Args("MarkTrue", t, True, "", ""))

MarkFalse ==
    \E t \in Types, c \in Causes : mark(Args("MarkFalse", t, False, c[1], c[2]))

MarkUnknown ==
    \E t \in Types, c \in Causes : mark(Args("MarkUnknown", t, Unknown, c[1], c[2]))

SyncReady == mark(readyArgs(heap[obj]))

IsTrue ==
    \E t \in Types :
        /\ call' = [Args("IsTrue", t, "", "", "") EXCEPT !.ret = isTrue(heap[obj], t)]
        /\ UNCHANGED <<heap, obj, held, snap, clock, locals>>

\* the wall clock moves between calls; time.Now().UTC() carries no monotonic
\* reading, so it may also step back
Tick ==
    /\ \E c \in 1..MaxClock : c # clock /\ clock' = c
    /\ UNCHANGED <<heap, obj, held, snap, call, locals>>

Next == MarkTrue \/ MarkFalse \/ MarkUnknown \/ SyncReady \/ IsTrue \/ Tick

Spec == Init /\ [][Next]_vars

\* ---------------------------------------------------------------- calls, statement by statement
\* The same calls, one statement at a time, made by a caller that keeps the
\* slice it saw before the call until the call has returned.

Marks == {"MarkTrue", "MarkFalse", "MarkUnknown"}
Mutators == Marks \cup {"SyncReady"}

\* the calls a caller can make
CallArgs ==
    {Args("MarkTrue", t, True, "", "") : t \in Types}
    \cup {Args("MarkFalse", t, False, c[1], c[2]) : t \in Types, c \in Causes}
    \cup {Args("MarkUnknown", t, Unknown, c[1], c[2]) : t \in Types, c \in Causes}
    \cup {Args("SyncReady", Ready, "", "", "")}
    \cup {Args("IsTrue", t, "", "", "") : t \in Types}

liveArrays == ({obj, held} \cup {conds[q] : q \in Procs}) \ {0}

\* the caller notes the slice the accessor holds and enters the function
Call(p, a) ==
    /\ pc[p] = "idle"
    /\ pc' = [pc EXCEPT ![p] = "called"]
    /\ frame' = [frame EXCEPT ![p] = a]
    /\ held' = obj
    /\ snap' = heap[obj]
    /\ UNCHANGED <<heap, obj, clock, call, conds, gets, sets>>

\* obj.GetConditions()
GetConditions(p) ==
    /\ pc[p] = "called"
    /\ pc' = [pc EXCEPT ![p] = "read"]
    /\ conds' = [conds EXCEPT ![p] = obj]
    /\ gets' = [gets EXCEPT ![p] = @ + 1]
    /\ UNCHANGED <<heap, obj, held, snap, clock, call, frame, sets>>

\* conds := append([]Condition(nil), ...)
Copy(p) ==
    /\ pc[p] = "read"
    /\ frame[p].op \in Mutators
    /\ LET new == copyTarget(conds[p], freshArray(liveArrays)) IN
        /\ heap' = [heap EXCEPT ![new] = heap[conds[p]]]
        /\ conds' = [conds EXCEPT ![p] = new]
    /\ pc' = [pc EXCEPT ![p] = "copied"]
    /\ UNCHANGED <<obj, held, snap, clock, call, frame, gets, sets>>

\* IsTrue: c := get(&conds, t); return c != nil && c.Status == True
Lookup(p) ==
    /\ pc[p] = "read"
    /\ frame[p].op = "IsTrue"
    /\ frame' = [frame EXCEPT ![p].ret = isTrue(heap[conds[p]], frame[p].t)]
    /\ pc' = [pc EXCEPT ![p] = "returned"]
    /\ UNCHANGED <<heap, obj, held, snap, clock, call, conds, gets, sets>>

\* SyncReady: the loop over conds and the choice of the arguments of set
Scan(p) ==
    /\ pc[p] = "copied"
    /\ frame[p].op = "SyncReady"
    /\ frame' = [frame EXCEPT ![p] = readyArgs(heap[conds[p]])]
    /\ pc' = [pc EXCEPT ![p] = "scanned"]
    /\ UNCHANGED <<heap, obj, held, snap, clock, call, conds, gets, sets>>

\* set: now := time.Now().UTC(), then create or update
Upsert(p) ==
    /\ \/ pc[p] = "copied" /\ frame[p].op \in Marks
       \/ pc[p] = "scanned"
    /\ LET f == frame[p] IN
        heap' = [heap EXCEPT ![conds[p]] = upsert(@, f.t, f.s, f.reason, f.msg, clock)]
    /\ frame' = [frame EXCEPT ![p].now = clock]
    /\ pc' = [pc EXCEPT ![p] = "upserted"]
    /\ UNCHANGED <<obj, held, snap, clock, call, conds, gets, sets>>

\* set: sortConditions(*conds)
Sort(p) ==
    /\ pc[p] = "upserted"
    /\ heap' = [heap EXCEPT ![conds[p]] = sortConditions(@)]
    /\ pc' = [pc EXCEPT ![p] = "sorted"]
    /\ UNCHANGED <<obj, held, snap, clock, call, frame, conds, gets, sets>>

\* obj.SetConditions(conds)
SetConditions(p) ==
    /\ pc[p] = "sorted"
    /\ heap' = swapHeap(heap, obj, conds[p])
    /\ held' = swapId(held, obj, conds[p])
    /\ conds' = [q \in Procs |-> swapId(conds[q], obj, conds[p])]
    /\ sets' = [sets EXCEPT ![p] = @ + 1]
    /\ pc' = [pc EXCEPT ![p] = "returned"]
    /\ UNCHANGED <<obj, snap, clock, call, frame, gets>>

\* the function returns; with its locals gone and the caller's old slice
\* dropped, their arrays are garbage
Return(p) ==
    /\ pc[p] = "returned"
    /\ pc' = [pc EXCEPT ![p] = "idle"]
    /\ frame' = [frame EXCEPT ![p] = NoCall]
    /\ conds' = [conds EXCEPT ![p] = 0]
    /\ gets' = [gets EXCEPT ![p] = 0]
    /\ sets' = [sets EXCEPT ![p] = 0]
    /\ held' = 0
    /\ snap' = <<>>
    /\ heap' = collect(heap, ({obj} \cup {conds[q] : q \in Procs \ {p}}) \ {0})
    /\ UNCHANGED <<obj, clock, call>>

NextSteps ==
    \/ \E a \in CallArgs : Call(MainThread, a)
    \/ GetConditions(MainThread)
    \/ Copy(MainThread)
    \/ Lookup(MainThread)
    \/ Scan(MainThread)
    \/ Upsert(MainThread)
    \/ Sort(MainThread)
    \/ SetConditions(MainThread)
    \/ Return(MainThread)
    \/ Tick

SpecSteps == Init /\ [][NextSteps]_vars

\* ---------------------------------------------------------------- views
stored == heap[obj]
TypesOf(cs) == {cs[i].Type : i \in 1..Len(cs)}

entry(cs, t) == cs[get(cs, t)]
TypeA == TypePool[1]
TypeS == TypePool[2]
main == frame[MainThread]
returned(ops) == pc[MainThread] = "returned" /\ main.op \in ops

\* Ready, if present, is first; the other entries are strictly ascending by Type
SortedSet(cs) ==
    /\ \A i \in 1..Len(cs) : cs[i].Type = Ready => i = 1
    /\ \A i, j \in 1..Len(cs) :
        i < j /\ cs[i].Type # Ready /\ cs[j].Type # Ready
            => StrLess(cs[i].Type, cs[j].Type)

Unique(cs) == \A i, j \in 1..Len(cs) : i # j => cs[i].Type # cs[j].Type

\* the non-Ready entries of cs that are False
Failing(cs) == {i \in 1..Len(cs) : cs[i].Type # Ready /\ cs[i].Status = False}

\* ---------------------------------------------------------------- claims

\* C1: after every MarkTrue / MarkFalse / MarkUnknown call, whatever the Types
\* (Ready included), the stored set has Ready, if present, at index 0 and the
\* other entries strictly ascending by Type in byte-wise order.
C1_SortInvariant == call.op \in Marks => SortedSet(stored)

\* a mark of "A" that had to move in front of "S" and behind Ready
C1_Witness ==
    /\ call.op \in Marks
    /\ call.t = TypeA
    /\ Len(stored) = 3
    /\ stored[1].Type = Ready /\ stored[2].Type = TypeA /\ stored[3].Type = TypeS
    /\ stored[2].LastTransitionTime = 2 /\ stored[3].LastTransitionTime = 1
    /\ stored[1].LastTransitionTime = 1

\* C2: after any sequence of Mark* and SyncReady calls no two entries of the
\* stored set have the same Type.
C2_Uniqueness == Unique(stored)

\* a mark of a Type that was already there, in a full set
C2_Witness ==
    /\ call.op = "MarkFalse"
    /\ Cardinality(TypesOf(stored)) = 3
    /\ entry(stored, call.t).LastTransitionTime # call.now

\* C3: SyncReady called while some non-Ready entry is False leaves Ready False
\* with the Reason and Message of the False entry of smallest Type.
C3_SyncReadyFalse ==
    returned({"SyncReady"}) /\ Failing(snap) # {} =>
        LET m == CHOOSE i \in Failing(snap) :
                    \A j \in Failing(snap) \ {i} : StrLess(snap[i].Type, snap[j].Type)
            r == entry(stored, Ready)
        IN  /\ get(stored, Ready) # 0
            /\ r.Status = False
            /\ r.Reason = snap[m].Reason
            /\ r.Message = snap[m].Message

\* two False entries; "S" was created first and "A" changed last, "A" wins
C3_Witness ==
    /\ returned({"SyncReady"})
    /\ Cardinality(Failing(snap)) = 2
    /\ entry(snap, TypeA).Reason = "DBDown"
    /\ entry(snap, TypeA).Message = "database unreachable"
    /\ entry(snap, TypeS).Reason = ""
    /\ entry(snap, TypeS).LastTransitionTime < entry(snap, TypeA).LastTransitionTime
    /\ entry(stored, Ready).Reason = "DBDown"

\* C4: SyncReady called while no non-Ready entry is False (an empty set,
\* Unknown entries, any earlier Ready) leaves Ready True with Reason "" and
\* Message "".
C4_SyncReadyTrue ==
    returned({"SyncReady"}) /\ Failing(snap) = {} =>
        /\ get(stored, Ready) # 0
        /\ entry(stored, Ready) =
             Condition(Ready, True, "", "", entry(stored, Ready).LastTransitionTime)

\* Ready was False and an Unknown entry is present
C4_Witness ==
    /\ returned({"SyncReady"})
    /\ Failing(snap) = {}
    /\ \E i \in 1..Len(snap) : snap[i].Status = Unknown /\ snap[i].Type # Ready
    /\ get(snap, Ready) # 0
    /\ entry(snap, Ready).Status = False
    /\ entry(snap, Ready).Reason = "DBDown"
    /\ entry(stored, Ready).Status = True

C6_StatusChangeAdvances ==
    returned(Marks) /\ get(snap, main.t) # 0 =>
        LET old == entry(snap, main.t)
            new == entry(stored, main.t)
        IN  old.Status # main.s /\ main.now > old.LastTransitionTime =>
                new.LastTransitionTime > old.LastTransitionTime

\* C7: IsTrue(obj, t) returns true exactly when the stored set has an entry of
\* Type t with Status True, writes nothing, and returns the same value when it
\* is called again with no mutation in between.
C7_IsTrue ==
    [][call'.op = "IsTrue" /\ clock' = clock =>
        /\ call'.ret =
             (\E i \in 1..Len(stored) :
                 stored[i].Type = call'.t /\ stored[i].Status = True)
        /\ heap' = heap
        /\ obj' = obj
        /\ (call.op = "IsTrue" /\ call.t = call'.t => call'.ret = call.ret)]_vars

\* IsTrue said true for one Type while another one is Unknown
C7_Witness ==
    /\ call.op = "IsTrue"
    /\ call.ret
    /\ call.t = TypeS
    /\ get(stored, TypeA) # 0
    /\ entry(stored, TypeA).Status = Unknown
    /\ entry(stored, TypeS).Status = True

\* C8: the sequence GetConditions returned is never written: a reference to
\* it kept elsewhere shows the old entries during and after a Mark* or
\* SyncReady call, whose changes go to a private array that only
\* SetConditions makes the accessor's.
C8_CopyOnWrite ==
    /\ held # 0 => heap[held] = snap
    /\ pc[MainThread] \in {"copied", "scanned", "upserted", "sorted"} =>
         conds[MainThread] \notin {0, obj, held}
    /\ returned(Mutators) => held # obj /\ conds[MainThread] = obj

\* an entry that was present has been updated, and the old slice still
\* shows it as it was
C8_Witness ==
    /\ returned(Mutators)
    /\ get(snap, main.t) # 0
    /\ entry(stored, main.t) # entry(snap, main.t)
    /\ heap[held] = snap
    /\ Len(snap) = 3

\* C9: a Mark* call reads the accessor once and writes it once, in that
\* order; until the write the accessor holds the old set, and the write hands
\* it the sorted set with the marked entry updated and nothing else changed.
C9_OneReadOneWrite ==
    LET p == MainThread IN
    main.op \in Marks =>
        /\ gets[p] <= 1 /\ sets[p] <= 1
        /\ sets[p] = 1 => gets[p] = 1
        /\ pc[p] = "returned" => gets[p] = 1 /\ sets[p] = 1
        /\ sets[p] = 0 => stored = snap
        /\ sets[p] = 1 =>
            /\ SortedSet(stored)
            /\ Unique(stored)
            /\ TypesOf(stored) = TypesOf(snap) \cup {main.t}
            /\ \E i \in 1..Len(stored) :
                /\ stored[i].Type = main.t
                /\ stored[i].Status = main.s
                /\ stored[i].Reason = main.reason
                /\ stored[i].Message = main.msg
            /\ \A i \in 1..Len(snap) :
                snap[i].Type # main.t => \E j \in 1..Len(stored) : stored[j] = snap[i]

\* inside set the private copy is unsorted while the accessor holds the old set
C9_Witness ==
    /\ pc[MainThread] = "upserted"
    /\ main.op \in Marks
    /\ ~SortedSet(heap[conds[MainThread]])
    /\ Len(heap[conds[MainThread]]) = 3
    /\ stored = snap
    /\ gets[MainThread] = 1 /\ sets[MainThread] = 0

\* C10: a Type that is stored stays stored over every later call; a Mark* of
\* an absent Type adds exactly one entry, a Mark* of a present Type updates
\* that entry and keeps the size.
C10_NeverDeleted ==
    /\ [](returned(Marks) =>
            IF main.t \in TypesOf(snap)
            THEN /\ Len(stored) = Len(snap)
                 /\ entry(stored, main.t).Status = main.s
                 /\ entry(stored, main.t).Reason = main.reason
                 /\ entry(stored, main.t).Message = main.msg
            ELSE /\ Len(stored) = Len(snap) + 1
                 /\ main.t \in TypesOf(stored))
    /\ [][TypesOf(stored) \subseteq TypesOf(stored')]_vars

\* a third entry has been added to a set of two
C10_Witness ==
    /\ returned(Marks)
    /\ main.t \notin TypesOf(snap)
    /\ Len(snap) = 2
    /\ Len(stored) = 3

\* C11: after every SyncReady call the stored set has a Ready entry, it is at
\* index 0, and the other entries are strictly ascending by Type.
C11_ReadyFirst ==
    returned({"SyncReady"}) =>
        /\ stored # <<>>
        /\ stored[1].Type = Ready
        /\ \A i \in 2..Len(stored) : stored[i].Type # Ready
        /\ \A i, j \in 2..Len(stored) :
            i < j => StrLess(stored[i].Type, stored[j].Type)

\* SyncReady created Ready behind "A" and "S" and it ended up in front of both
C11_Witness ==
    /\ returned({"SyncReady"})
    /\ get(snap, Ready) = 0
    /\ Len(snap) = 2
    /\ Len(stored) = 3
    /\ stored[1].Type = Ready /\ stored[2].Type = TypeA /\ stored[3].Type = TypeS

\* C13: an entry that a Mark* or SyncReady call creates for an absent Type
\* gets the clock value of that call as LastTransitionTime, which is not the
\* zero time, whatever Status and Reason are.
C13_CreationTime ==
    returned(Mutators) /\ main.t \notin TypesOf(snap) =>
        /\ get(stored, main.t) # 0
        /\ entry(stored, main.t).LastTransitionTime = main.now
        /\ entry(stored, main.t).LastTransitionTime # 0

\* an Unknown entry with a Reason, created at the later clock value
C13_Witness ==
    /\ returned({"MarkUnknown"})
    /\ main.t \notin TypesOf(snap)
    /\ main.reason = "DBDown"
    /\ main.now = 2
    /\ snap # <<>>
    /\ \A i \in 1..Len(snap) : snap[i].LastTransitionTime = 1
    /\ entry(stored, main.t).LastTransitionTime = 2

\* C14: a Mark* call for Type t leaves every entry of another Type as it
\* was, and SyncReady leaves every non-Ready entry as it was; only the
\* positions may change.
C14_Frame ==
    returned(Mutators) =>
        \A i \in 1..Len(snap) :
            snap[i].Type # main.t =>
                /\ get(stored, snap[i].Type) # 0
                /\ entry(stored, snap[i].Type) = snap[i]

\* the marked entry changed and moved the other entries, which kept their fields
C14_Witness ==
    /\ returned(Marks)
    /\ main.t = TypeA
    /\ Len(snap) = 2
    /\ snap[1].Type = Ready /\ snap[2].Type = TypeS
    /\ snap[2].Reason # main.reason
    /\ main.now > snap[2].LastTransitionTime
    /\ stored[3] = snap[2]
    /\ stored[1] = snap[1]

\* C15: a SyncReady call right after a SyncReady call leaves the stored set
\* as it was, in every field, also when the clock moved in between.
C15_SyncReadyIdempotent ==
    [][call.op = "SyncReady" /\ call'.op = "SyncReady" => stored' = stored]_vars

\* the latest SyncReady ran at a later clock value than the time Ready carries
C15_Witness ==
    /\ call.op = "SyncReady"
    /\ call.s = False
    /\ call.reason = "DBDown"
    /\ call.now > entry(stored, Ready).LastTransitionTime

\* the Reason SyncReady writes, read off the set it was called on
writtenReason(cs) ==
    IF Failing(cs) = {} THEN ""
    ELSE cs[CHOOSE i \in Failing(cs) : \A j \in Failing(cs) : i <= j].Reason

LessTypes == {Ready, <<>>} \cup {TypePool[i] : i \in 1..Len(TypePool)}

\* a slice of three conditions; the fields other than Type differ so that
\* two entries of one Type are still two conditions
InitLess ==
    /\ \E a, b, c \in LessTypes :
        heap = [h \in ArrIds |->
                  IF h = 1
                  THEN << Condition(a, True, "", "", 1),
                          Condition(b, False, "DBDown", "database unreachable", 1),
                          Condition(c, Unknown, "DBDown", "", 1) >>
                  ELSE <<>>]
    /\ obj = 1
    /\ held = 0
    /\ snap = <<>>
    /\ clock = 1
    /\ call = NoCall
    /\ pc = [p \in Procs |-> "idle"]
    /\ frame = [p \in Procs |-> NoCall]
    /\ conds = [p \in Procs |-> 0]
    /\ gets = [p \in Procs |-> 0]
    /\ sets = [p \in Procs |-> 0]

\* the closure sortConditions hands to sort.Slice, called on every pair of indices
Less ==
    /\ call.op = "none"
    /\ call' = [op |-> "less",
                ret |-> [i \in 1..Len(stored) |-> [j \in 1..Len(stored) |->
                            lexicographicLess(stored[i], stored[j])]]]
    /\ UNCHANGED <<heap, obj, held, snap, clock, locals>>

NextLess == Less

SpecLess == InitLess /\ [][NextLess]_vars

\* C18: lexicographicLess is a strict total order on conditions of distinct
\* Types: irreflexive, asymmetric, transitive, exactly one of less(a,b) and
\* less(b,a) for distinct Types, Ready below every other Type, and byte-wise
\* Type order between two non-Ready conditions.
C18_StrictTotalOrder ==
    call.op = "less" =>
        LET n == 1..Len(stored)
            less(i, j) == call.ret[i][j]
            ty(i) == stored[i].Type
        IN  /\ \A i \in n : ~less(i, i)
            /\ \A i, j \in n : less(i, j) => ~less(j, i)
            /\ \A i, j, k \in n : less(i, j) /\ less(j, k) => less(i, k)
            /\ \A i, j \in n : ty(i) # ty(j) => (less(i, j) # less(j, i))
            /\ \A i, j \in n : ty(i) = ty(j) => ~less(i, j)
            /\ \A i, j \in n : ty(i) = Ready /\ ty(j) # Ready => less(i, j)
            /\ \A i, j \in n : ty(i) # Ready /\ ty(j) # Ready =>
                 (less(i, j) <=> StrLess(ty(i), ty(j)))

\* "A" and "Re" are below "Ready" in byte order and still compare above it
C18_Witness ==
    /\ call.op = "less"
    /\ stored[1].Type = TypeA
    /\ stored[2].Type = Ready
    /\ stored[3].Type = TypePool[3]
    /\ StrLess(stored[1].Type, stored[2].Type)
    /\ StrLess(stored[3].Type, stored[2].Type)
    /\ call.ret[2][1] /\ call.ret[2][3] /\ call.ret[1][3]
    /\ ~call.ret[1][2] /\ ~call.ret[3][2] /\ ~call.ret[3][1]

\* ---------------------------------------------------------------- a reader racing a call
\* One thread makes a Mark* or SyncReady call while another reads through the
\* same accessor with no lock. The accessor is the plain field of the typical
\* implementation: GetConditions loads the words of the slice header and
\* SetConditions stores them, one word at a time in an order the compiler
\* picks; nothing orders the loads of one thread against the stores of the
\* other.

Reader == NumProcs

\* the length word of the accessor's slice header; obj is its pointer word
hdrLen ==
    IF pc[MainThread] = "stored_ptr" THEN Len(heap[held])
    ELSE IF pc[MainThread] = "stored_len" THEN Len(heap[conds[MainThread]])
    ELSE Len(heap[obj])

\* what indexing a slice of n elements over the array arr yields; an index
\* past the array reads whatever lies there
zeroCondition == Condition(<<>>, "", "", "", 0)
beyond == {zeroCondition, Condition(Ready, True, "", "", 1)}
index(arr, n, junk) == [i \in 1..n |-> IF i <= Len(arr) THEN arr[i] ELSE junk]

ReadCall ==
    [op |-> "GetConditions", len |-> 0, atPtr |-> "", atLen |-> "", seen |-> <<>>]

\* s.conds = c: the store of the pointer word
StorePtr(p) ==
    /\ pc[p] \in {"sorted", "stored_len"}
    /\ heap' = swapHeap(heap, obj, conds[p])
    /\ held' = swapId(held, obj, conds[p])
    /\ conds' = [q \in Procs |-> swapId(conds[q], obj, conds[p])]
    /\ IF pc[p] = "sorted"
       THEN pc' = [pc EXCEPT ![p] = "stored_ptr"] /\ sets' = sets
       ELSE pc' = [pc EXCEPT ![p] = "returned"] /\ sets' = [sets EXCEPT ![p] = @ + 1]
    /\ UNCHANGED <<obj, snap, clock, call, frame, gets>>

\* s.conds = c: the store of the length word
StoreLen(p) ==
    /\ pc[p] \in {"sorted", "stored_ptr"}
    /\ IF pc[p] = "sorted"
       THEN pc' = [pc EXCEPT ![p] = "stored_len"] /\ sets' = sets
       ELSE pc' = [pc EXCEPT ![p] = "returned"] /\ sets' = [sets EXCEPT ![p] = @ + 1]
    /\ UNCHANGED <<heap, obj, held, snap, clock, call, frame, conds, gets>>

\* the other thread calls obj.GetConditions()
Race(p) ==
    /\ pc[p] = "idle"
    /\ pc' = [pc EXCEPT ![p] = "called"]
    /\ frame' = [frame EXCEPT ![p] = ReadCall]
    /\ UNCHANGED <<heap, obj, held, snap, clock, call, conds, gets, sets>>

\* return s.conds: the load of the pointer word
LoadPtr(p) ==
    /\ pc[p] \in {"called", "len"}
    /\ conds' = [conds EXCEPT ![p] = obj]
    /\ frame' = [frame EXCEPT ![p].atPtr = pc[MainThread]]
    /\ IF pc[p] = "called"
       THEN pc' = [pc EXCEPT ![p] = "ptr"] /\ gets' = gets
       ELSE pc' = [pc EXCEPT ![p] = "read"] /\ gets' = [gets EXCEPT ![p] = @ + 1]
    /\ UNCHANGED <<heap, obj, held, snap, clock, call, sets>>

\* return s.conds: the load of the length word
LoadLen(p) ==
    /\ pc[p] \in {"called", "ptr"}
    /\ frame' = [frame EXCEPT ![p].len = hdrLen, ![p].atLen = pc[MainThread]]
    /\ IF pc[p] = "called"
       THEN pc' = [pc EXCEPT ![p] = "len"] /\ gets' = gets
       ELSE pc' = [pc EXCEPT ![p] = "read"] /\ gets' = [gets EXCEPT ![p] = @ + 1]
    /\ UNCHANGED <<heap, obj, held, snap, clock, call, conds, sets>>

\* the reader goes through the slice it got
Index(p) ==
    /\ pc[p] = "read"
    /\ frame[p].op = "GetConditions"
    /\ \E junk \in beyond :
        frame' = [frame EXCEPT ![p].seen = index(heap[conds[p]], frame[p].len, junk)]
    /\ pc' = [pc EXCEPT ![p] = "returned"]
    /\ UNCHANGED <<heap, obj, held, snap, clock, call, conds, gets, sets>>

\* both threads are done and drop what they hold
Join ==
    /\ \A p \in {MainThread, Reader} : pc[p] = "returned"
    /\ pc' = [p \in Procs |-> "idle"]
    /\ frame' = [p \in Procs |-> NoCall]
    /\ conds' = [p \in Procs |-> 0]
    /\ gets' = [p \in Procs |-> 0]
    /\ sets' = [p \in Procs |-> 0]
    /\ held' = 0
    /\ snap' = <<>>
    /\ heap' = collect(heap, {obj})
    /\ UNCHANGED <<obj, clock, call>>

\* the calls of the writing thread: a mark to True, a mark to False with a
\* cause, and the aggregation
RaceCalls ==
    {a \in CallArgs :
        \/ a.op \in {"MarkTrue", "SyncReady"}
        \/ a.op = "MarkFalse" /\ a.reason # "" /\ a.msg # ""}

NextRace ==
    \/ \E a \in RaceCalls : Call(MainThread, a)
    \/ GetConditions(MainThread)
    \/ Copy(MainThread)
    \/ Scan(MainThread)
    \/ Upsert(MainThread)
    \/ Sort(MainThread)
    \/ StorePtr(MainThread)
    \/ StoreLen(MainThread)
    \/ Race(Reader)
    \/ LoadPtr(Reader)
    \/ LoadLen(Reader)
    \/ Index(Reader)
    \/ Join

SpecRace == Init /\ [][NextRace]_vars

\* the reader's side of a finished race
reader == frame[Reader]
raced == pc[Reader] = "returned" /\ returned(Mutators)
newPtr == reader.atPtr \in {"stored_ptr", "returned"}
newLen == reader.atLen \in {"stored_len", "returned"}

ConcCalls == {a \in RaceCalls : a.op \in Marks}

\* obj.SetConditions(conds), once every call has done its obj.GetConditions()
WriteBack(p) ==
    /\ \A q \in Procs : pc[q] \notin {"idle", "called"}
    /\ SetConditions(p)

\* all calls have returned
JoinAll ==
    /\ \A p \in Procs : pc[p] = "returned"
    /\ pc' = [p \in Procs |-> "idle"]
    /\ frame' = [p \in Procs |-> NoCall]
    /\ conds' = [p \in Procs |-> 0]
    /\ gets' = [p \in Procs |-> 0]
    /\ sets' = [p \in Procs |-> 0]
    /\ held' = 0
    /\ snap' = <<>>
    /\ heap' = collect(heap, {obj})
    /\ UNCHANGED <<obj, clock, call>>

NextConc ==
    \/ \E p \in Procs, a \in ConcCalls : Call(p, a)
    \/ \E p \in Procs : GetConditions(p)
    \/ \E p \in Procs : Copy(p)
    \/ \E p \in Procs : Upsert(p)
    \/ \E p \in Procs : Sort(p)
    \/ \E p \in Procs : WriteBack(p)
    \/ JoinAll

SpecConc == Init /\ [][NextConc]_vars

\* every call has completed
allReturned == \A p \in Procs : pc[p] = "returned"

\* C17: when Mark* calls for different Types all read before any of them
\* writes, then after all of them completed the stored set is the set from
\* before the calls plus the Type of the call that wrote last: the Type of a
\* call that wrote earlier is absent unless it was there before, although
\* that call did write it; and the stored set is sorted with unique Types at
\* every moment.
C17_LostUpdate ==
    /\ SortedSet(stored)
    /\ Unique(stored)
    /\ \A q \in Procs :
        allReturned /\ conds[q] = obj =>
            /\ TypesOf(stored) = TypesOf(snap) \cup {frame[q].t}
            /\ \A p \in Procs \ {q} :
                /\ frame[p].t \in TypesOf(heap[conds[p]])
                /\ frame[p].t \notin TypesOf(snap) \cup {frame[q].t}
                     => frame[p].t \notin TypesOf(stored)

\* the main thread marked "A" and wrote first, the other thread marked "S" and
\* wrote last: "A" is in the set the main thread wrote and not in the stored set
C17_Witness ==
    /\ allReturned
    /\ \A p \in Procs : sets[p] = 1 /\ gets[p] = 1
    /\ main.t = TypeA
    /\ conds[MainThread] # obj
    /\ TypeA \in TypesOf(heap[conds[MainThread]])
    /\ TypeA \notin TypesOf(stored)
    /\ \E q \in Procs : conds[q] = obj /\ frame[q].t = TypeS
    /\ TypeS \in TypesOf(stored)
    /\ snap # <<>>

====
